---------------------------- MODULE Spec2Model ----------------------------
(***************************************************************************)
(* The request authorization pipeline of the cloud API gateway: route and  *)
(* rule matching, the bearer-token middleware, the token-introspection     *)
(* client with its cache, the RBAC middleware and the hand-over to the     *)
(* reverse proxy.                                                          *)
(***************************************************************************)
EXTENDS Integers, Sequences, FiniteSets, TLC

VARIABLES
    cfg,      \* result of config.Load: [ok, Routes, CacheEnabled, CacheTTL]
    now,      \* wall clock (time.Now), whole seconds
    cache,    \* Client.cache: token -> NoEntry or a CachedToken
    rq,       \* per worker: the request in hand and the handler's locals
    served,   \* number of requests accepted so far
    unit,     \* the case in hand of the unit-level specifications
    mu,       \* the mutex inside the cache's sync.Map: its holder, or ""
    hist      \* history kept for the properties only: what was stored, and
              \* when, and how the previous resolve ended

vars == <<cfg, now, cache, rq, served, unit, mu, hist>>

(***************************************************************************)
(* Bounds of the model.                                                    *)
(***************************************************************************)
MaxRequests == 2
MaxTime == 2
MaxRoles == 2
MaxRules == 2

(***************************************************************************)
(* Program constants (net/http status codes used by the handlers).         *)
(***************************************************************************)
StatusUnauthorized == 401
StatusForbidden == 403
StatusNotFound == 404
StatusInternalServerError == 500

Range(s) == {s[i] : i \in 1..Len(s)}

(***************************************************************************)
(* Universe of request inputs.                                             *)
(***************************************************************************)
Paths == {"/a", "/A", "/b", "/c"}
Methods == {"GET", "POST", "PUT"}
Roles == {"admin", "editor", "viewer"}
Tokens == {"t1", "t2"}
Workers == {"w1"}

\* strings.ToLower / strings.ToUpper on the strings of the universe
ToLower(s) ==
    CASE s = "/A" -> "/a"
      [] s = "/B" -> "/b"
      [] s = "Bearer" -> "bearer"
      [] s = "BEARER" -> "bearer"
      [] s = "Basic" -> "basic"
      [] s = "GET" -> "get"
      [] s = "POST" -> "post"
      [] s = "PUT" -> "put"
      [] OTHER -> s

ToUpper(s) ==
    CASE s = "get" -> "GET"
      [] s = "post" -> "POST"
      [] s = "put" -> "PUT"
      [] s = "Get" -> "GET"
      [] s = "Post" -> "POST"
      [] OTHER -> s


(***************************************************************************)
(* Configuration: config.RouteRule, config.RouteConfig, config.Config.     *)
(* A *bool is "nil", "true" or "false".  A path pattern is a regular       *)
(* expression of the table below; Lang gives the paths its source matches  *)
(* case-sensitively.  validateAndCompile compiles every pattern with the   *)
(* (?i) flag, either present in the source or put in front of it, so the   *)
(* compiled pattern folds case.                                            *)
(***************************************************************************)
Rule(methods, requireAuth, requiredRoles, requireAll) ==
    [Methods |-> methods, RequireAuth |-> requireAuth,
     RequiredRoles |-> requiredRoles, RequireAllRoles |-> requireAll]

Route(name, pattern, upstream, rules) ==
    [Name |-> name, PathPattern |-> pattern, CompiledPattern |-> "nil",
     Methods |-> <<>>, Upstream |-> upstream, StripPrefix |-> "",
     RequiredRoles |-> <<>>, RequireAllRoles |-> FALSE,
     LegacyRequireAuth |-> "nil", Rules |-> rules]

Lang(pattern) ==
    CASE pattern = "^/a$" -> {"/a"}
      [] pattern = "^/B$" -> {"/B"}
      [] pattern = "^/(a|b)$" -> {"/a", "/b"}
      [] pattern = "(?i)^/c$" -> {"/c"}
      [] OTHER -> {}

\* regexp.Compile: the pattern "(" does not compile
RegexpCompiles(pattern) == pattern # "("

\* (*regexp.Regexp).MatchString for a compiled pattern [src, fold]
MatchString(compiled, path) ==
    \E q \in Lang(compiled.src) :
        IF compiled.fold THEN ToLower(q) = ToLower(path) ELSE q = path

\* url.Parse(route.Upstream) succeeds (the proxy test's "://invalid" does not)
UrlParses(upstream) == upstream # "://invalid"
\* a rule that is public unless it asks for authentication
RequiresAuthUnlessUnset(rule) == rule.RequireAuth = "true"

\* RouteRule.RequiresAuth
RequiresAuth(rule) ==
    IF rule.RequireAuth = "nil" THEN TRUE ELSE rule.RequireAuth = "true"
\* a validation that lets a public rule keep its required roles
RuleErrorAllowsPublicRoles(rule) ==
    IF Len(rule.Methods) = 0 THEN 1 ELSE 0

\* the per-rule part of validateAndCompile: 0 when the rule passes, else the
\* number of the check that rejects it
RuleError(rule) ==
    IF Len(rule.Methods) = 0 THEN 1
    ELSE IF ~RequiresAuth(rule) /\ Len(rule.RequiredRoles) > 0 THEN 2
    ELSE 0
\* a load that keeps the methods as written
NormalizeRuleKeepsCase(rule) == rule

NormalizeRule(rule) ==
    [rule EXCEPT !.Methods = [k \in 1..Len(rule.Methods) |-> ToUpper(rule.Methods[k])]]

\* the per-route part of validateAndCompile: "" when the route passes
RouteError(route) ==
    IF route.PathPattern = "" THEN "path_pattern is required"
    ELSE IF route.Upstream = "" THEN "upstream is required"
    ELSE IF ~RegexpCompiles(route.PathPattern) THEN "path_pattern invalid regex"
    ELSE IF Len(route.Methods) > 0 \/ Len(route.RequiredRoles) > 0 \/ route.RequireAllRoles
        THEN "route-level methods/required_roles/require_all_roles are not supported"
    ELSE IF route.LegacyRequireAuth # "nil" THEN "route-level require_auth is not supported"
    ELSE IF Len(route.Rules) = 0 THEN "routes must define at least one rules entry"
    ELSE IF \E j \in 1..Len(route.Rules) : RuleError(route.Rules[j]) # 0
        THEN LET j == CHOOSE k \in 1..Len(route.Rules) :
                        /\ RuleError(route.Rules[k]) # 0
                        /\ \A l \in 1..(k - 1) : RuleError(route.Rules[l]) = 0
             IN IF RuleError(route.Rules[j]) = 1 THEN "methods is required"
                ELSE "rules with require_auth=false cannot define required_roles"
    ELSE ""

CompileRoute(route) ==
    [route EXCEPT
        !.CompiledPattern = [src |-> route.PathPattern, fold |-> TRUE],
        !.Rules = [j \in 1..Len(route.Rules) |-> NormalizeRule(route.Rules[j])]]

\* Config.validateAndCompile, then Load's result: the configuration, or an error
validateAndCompile(raw) ==
    IF raw.Server.Port <= 0 \/ raw.Server.Port > 65535 THEN "invalid server port"
    ELSE IF raw.Authz.IntrospectionURL = "" THEN "authz.introspection_url is required"
    ELSE IF raw.Authz.ClientID = "" THEN "authz.client_id is required"
    ELSE IF raw.Authz.ClientSecret = "" THEN "authz.client_secret is required"
    ELSE IF \E i \in 1..Len(raw.Routes) : RouteError(raw.Routes[i]) # ""
        THEN LET i == CHOOSE k \in 1..Len(raw.Routes) :
                        /\ RouteError(raw.Routes[k]) # ""
                        /\ \A l \in 1..(k - 1) : RouteError(raw.Routes[l]) = ""
             IN RouteError(raw.Routes[i])
    ELSE ""

Load(raw) ==
    IF validateAndCompile(raw) # ""
    THEN [ok |-> FALSE, err |-> validateAndCompile(raw), Routes |-> <<>>,
          CacheEnabled |-> FALSE, CacheTTL |-> 0]
    ELSE [ok |-> TRUE, err |-> "",
          Routes |-> [i \in 1..Len(raw.Routes) |-> CompileRoute(raw.Routes[i])],
          CacheEnabled |-> raw.Cache.Enabled, CacheTTL |-> raw.Cache.TTL]


(***************************************************************************)
(* Route matcher.  MatchRoute yields the matched route (its index in the   *)
(* configured order, 0 for none) and the rules of that route whose method  *)
(* list holds the request method.                                          *)
(***************************************************************************)
RuleMatchesMethod(rule, method) ==
    Len(rule.Methods) = 0 \/ method \in Range(rule.Methods)

\* a matcher that hands back every rule of the route, whatever its methods
AllRulesOfRoute(route, method) == route.Rules

MatchingRules(route, method) ==
    SelectSeq(route.Rules, LAMBDA rule : RuleMatchesMethod(rule, method))

RECURSIVE MatchFrom(_, _, _, _)
MatchFrom(routes, i, path, method) ==
    IF i > Len(routes) THEN [route |-> 0, rules |-> <<>>]
    ELSE IF ~MatchString(routes[i].CompiledPattern, path)
        THEN MatchFrom(routes, i + 1, path, method)
    ELSE IF MatchingRules(routes[i], method) = <<>>
        THEN MatchFrom(routes, i + 1, path, method)
    ELSE [route |-> i, rules |-> MatchingRules(routes[i], method)]

\* a matcher that settles on the first route whose pattern matches the path
MatchFirstPathOnly(routes, path, method) ==
    IF \E i \in 1..Len(routes) : MatchString(routes[i].CompiledPattern, path)
    THEN LET i == CHOOSE k \in 1..Len(routes) :
                    /\ MatchString(routes[k].CompiledPattern, path)
                    /\ \A l \in 1..(k - 1) : ~MatchString(routes[l].CompiledPattern, path)
         IN IF MatchingRules(routes[i], method) = <<>>
            THEN [route |-> 0, rules |-> <<>>]
            ELSE [route |-> i, rules |-> MatchingRules(routes[i], method)]
    ELSE [route |-> 0, rules |-> <<>>]

MatchRoute(routes, path, method) == MatchFrom(routes, 1, path, method)

(***************************************************************************)
(* splitRulesByAuth (cmd/gateway/main.go).                                 *)
(***************************************************************************)
\* a split that calls the rules public only when none of them requires
\* authentication
splitRulesAllPublic(rules) ==
    IF \A i \in 1..Len(rules) : ~RequiresAuth(rules[i])
    THEN [publicRules |-> rules, protectedRules |-> <<>>]
    ELSE [publicRules |-> <<>>, protectedRules |-> rules]

splitRulesByAuth(rules) ==
    [publicRules |-> SelectSeq(rules, LAMBDA rule : ~RequiresAuth(rule)),
     protectedRules |-> SelectSeq(rules, LAMBDA rule : RequiresAuth(rule))]

(***************************************************************************)
(* Authorization header values and extractToken.  SplitN is                *)
(* strings.SplitN(authHeader, " ", 2) on the header values of the model.   *)
(***************************************************************************)
Headers == {"", "Bearer", "Bearer ", "Basic t1", "Bearer t1", "bearer t2", "BEARER t1"}

SplitN(h) ==
    CASE h = "" -> <<"">>
      [] h = "Bearer" -> <<"Bearer">>
      [] h = "Bearer " -> <<"Bearer", "">>
      [] h = "Basic t1" -> <<"Basic", "t1">>
      [] h = "Bearer t1" -> <<"Bearer", "t1">>
      [] h = "bearer t2" -> <<"bearer", "t2">>
      [] h = "BEARER t1" -> <<"BEARER", "t1">>

\* an extraction that takes the second part whatever the scheme
extractTokenAnyScheme(authHeader) ==
    IF authHeader = "" THEN ""
    ELSE LET parts == SplitN(authHeader)
         IN IF Len(parts) # 2 THEN "" ELSE parts[2]

extractToken(authHeader) ==
    IF authHeader = "" THEN ""
    ELSE LET parts == SplitN(authHeader)
         IN IF Len(parts) # 2 \/ ToLower(parts[1]) # "bearer" THEN "" ELSE parts[2]

(***************************************************************************)
(* auth.IntrospectionResponse and GetAllRoles.                             *)
(***************************************************************************)
Introspection(active, realm, resource, username, exp) ==
    [Active |-> active, RealmAccess |-> [Roles |-> realm],
     ResourceAccess |-> resource, Username |-> username, Exp |-> exp]

\* the context carries no token claims
NoClaims == [nil |-> TRUE]

RECURSIVE SetToSeq(_)
SetToSeq(S) ==
    IF S = {} THEN <<>>
    ELSE LET x == CHOOSE y \in S : TRUE IN <<x>> \o SetToSeq(S \ {x})

\* the keys of roleSet after both loops; the slice returned lists them once
\* each, in the map's iteration order
RoleSet(ir) ==
    Range(ir.RealmAccess.Roles)
        \cup UNION {Range(ir.ResourceAccess[k].Roles) : k \in 1..Len(ir.ResourceAccess)}

\* the roles of all the lists one after the other, nothing removed
RECURSIVE Concat(_)
Concat(lists) ==
    IF lists = <<>> THEN <<>> ELSE Head(lists).Roles \o Concat(Tail(lists))

GetAllRolesNoDedup(ir) == ir.RealmAccess.Roles \o Concat(ir.ResourceAccess)

GetAllRoles(ir) == SetToSeq(RoleSet(ir))

(***************************************************************************)
(* RBACMiddleware: checkRoles and Handler.  The handler's outcome is the   *)
(* response it writes itself, or next = TRUE when it calls the next        *)
(* handler.                                                                *)
(***************************************************************************)
\* checkRoles with the two modes exchanged
checkRolesSwapped(userRoles, requiredRoles, requireAll) ==
    IF Len(requiredRoles) = 0 THEN TRUE
    ELSE LET roleMap == Range(userRoles)
         IN IF ~requireAll
            THEN \A i \in 1..Len(requiredRoles) : requiredRoles[i] \in roleMap
            ELSE \E i \in 1..Len(requiredRoles) : requiredRoles[i] \in roleMap

\* checkRoles without the early return for an empty requirement
checkRolesNoEmptyCase(userRoles, requiredRoles, requireAll) ==
    LET roleMap == Range(userRoles)
    IN IF requireAll
       THEN \A i \in 1..Len(requiredRoles) : requiredRoles[i] \in roleMap
       ELSE \E i \in 1..Len(requiredRoles) : requiredRoles[i] \in roleMap

checkRoles(userRoles, requiredRoles, requireAll) ==
    IF Len(requiredRoles) = 0 THEN TRUE
    ELSE LET roleMap == Range(userRoles)
         IN IF requireAll
            THEN \A i \in 1..Len(requiredRoles) : requiredRoles[i] \in roleMap
            ELSE \E i \in 1..Len(requiredRoles) : requiredRoles[i] \in roleMap

Outcome(status, body, next) == [status |-> status, body |-> body, next |-> next]

\* a handler that wants every rule to pass
RBACHandlerEveryRule(rules, claims) ==
    IF claims = NoClaims
    THEN Outcome(StatusUnauthorized, "Authentication required", FALSE)
    ELSE LET userRoles == GetAllRoles(claims)
         IN IF \A i \in 1..Len(rules) :
                    checkRoles(userRoles, rules[i].RequiredRoles, rules[i].RequireAllRoles)
            THEN Outcome(0, "", TRUE)
            ELSE Outcome(StatusForbidden, "Insufficient permissions", FALSE)
\* a middleware that decides on the first rule alone
RBACHandlerFirstRule(rules, claims) ==
    IF claims = NoClaims
    THEN Outcome(StatusUnauthorized, "Authentication required", FALSE)
    ELSE LET userRoles == GetAllRoles(claims)
         IN IF Len(rules) > 0 /\
                 checkRoles(userRoles, rules[1].RequiredRoles, rules[1].RequireAllRoles)
            THEN Outcome(0, "", TRUE)
            ELSE Outcome(StatusForbidden, "Insufficient permissions", FALSE)

RBACHandler(rules, claims) ==
    IF claims = NoClaims
    THEN Outcome(StatusUnauthorized, "Authentication required", FALSE)
    ELSE LET userRoles == GetAllRoles(claims)
         IN IF \E i \in 1..Len(rules) :
                    checkRoles(userRoles, rules[i].RequiredRoles, rules[i].RequireAllRoles)
            THEN Outcome(0, "", TRUE)
            ELSE Outcome(StatusForbidden, "Insufficient permissions", FALSE)


(***************************************************************************)
(* The configurations the gateway is started with.  Methods are written as *)
(* in the YAML file (any case); Load normalizes them.                      *)
(***************************************************************************)
pubGET == Rule(<<"get">>, "false", <<>>, FALSE)
admGET == Rule(<<"GET">>, "nil", <<"admin">>, TRUE)
viewGET == Rule(<<"Get">>, "true", <<"viewer">>, FALSE)
anyPOST == Rule(<<"POST">>, "true", <<"admin", "editor">>, FALSE)
allPUT == Rule(<<"PUT", "post">>, "nil", <<"admin", "editor">>, TRUE)
authPUT == Rule(<<"put">>, "nil", <<>>, FALSE)

RawConfig(routes, cacheEnabled) ==
    [Server |-> [Port |-> 8080],
     Authz |-> [IntrospectionURL |-> "http://authz/introspect",
                ClientID |-> "gateway", ClientSecret |-> "secret"],
     Cache |-> [Enabled |-> cacheEnabled, TTL |-> 2],
     Routes |-> routes]

TieredRoutes ==
    << Route("a", "^/a$", "http://a:8080", <<pubGET, admGET, anyPOST>>),
       Route("ab", "^/(a|b)$", "http://ab:8080", <<allPUT, viewGET, admGET>>) >>

PriorityRoutes ==
    << Route("b", "^/B$", "http://b:8080", <<admGET, authPUT>>),
       Route("open", "^/(a|b)$", "http://open:8080", <<pubGET>>),
       Route("bad", "(?i)^/c$", "://invalid", <<pubGET, anyPOST>>) >>

RawConfigs ==
    { RawConfig(TieredRoutes, TRUE),
      RawConfig(TieredRoutes, FALSE),
      RawConfig(PriorityRoutes, TRUE),
      \* rejected by validateAndCompile
      RawConfig(<<Route("norules", "^/a$", "http://a:8080", <<>>)>>, TRUE),
      RawConfig(<<Route("nomethods", "^/a$", "http://a:8080",
                        <<Rule(<<>>, "nil", <<>>, FALSE)>>)>>, TRUE),
      RawConfig(<<Route("pubroles", "^/a$", "http://a:8080",
                        <<admGET, Rule(<<"GET">>, "false", <<"admin">>, FALSE)>>)>>, TRUE),
      RawConfig(<<Route("badregex", "(", "http://a:8080", <<pubGET>>)>>, TRUE),
      RawConfig(<<Route("noupstream", "^/a$", "", <<pubGET>>)>>, FALSE) }

(***************************************************************************)
(* The introspection authority: what one call may come back with.          *)
(***************************************************************************)
Results ==
    { Introspection(FALSE, <<>>, <<>>, "", 0),
      Introspection(TRUE, <<"admin">>, <<>>, "alice", 0),
      Introspection(TRUE, <<"editor">>,
                    <<[Roles |-> <<"editor", "viewer">>]>>, "bob", 1),
      Introspection(TRUE, <<>>, <<>>, "carol", 0),
      Introspection(TRUE, <<"admin">>, <<[Roles |-> <<"editor">>]>>, "dave", 3) }

AuthorityOutcomes ==
    { \* lines 90-93: the request cannot be built from the configured URL
      [kind |-> "request", err |-> "failed to create request"],
      [kind |-> "transport", err |-> "introspection request failed: timeout"],
      [kind |-> "status", err |-> "introspection failed with status 401: invalid client"],
      [kind |-> "status", err |-> "introspection failed with status 500: db down"],
      [kind |-> "parse", err |-> "failed to parse introspection response"] }
    \cup { [kind |-> "ok", result |-> res] : res \in Results }

(***************************************************************************)
(* State of the gateway.                                                   *)
(***************************************************************************)
NoEntry == [present |-> FALSE]
CachedToken(result, expiresAt) ==
    [present |-> TRUE, Result |-> result, ExpiresAt |-> expiresAt]

NoResult == [nil |-> TRUE]

\* no audit entry: the request has not reached AuditMiddleware.Handler
NoAudit == [built |-> FALSE, emitted |-> FALSE, UserID |-> "", Roles |-> <<>>,
            ResponseStatus |-> 0]

Idle ==
    [pc |-> "idle", path |-> "", method |-> "", header |-> "",
     route |-> 0, rules |-> <<>>, token |-> "", result |-> NoResult,
     claims |-> NoClaims, status |-> 0, body |-> <<>>, forwarded |-> FALSE,
     calls |-> 0, lookups |-> 0, fail |-> "", audit |-> NoAudit]

NoUnit == [op |-> "none"]

\* nothing stored yet, no resolve finished yet
NoHistory ==
    [storedAt |-> [t \in Tokens |-> 0],
     lastStore |-> [t \in Tokens |-> NoEntry],
     prev |-> [token |-> "", inactive |-> FALSE]]

Init ==
    /\ \E raw \in RawConfigs : cfg = Load(raw)
    /\ now = 0
    /\ cache = [t \in Tokens |-> NoEntry]
    /\ rq = [w \in Workers |-> Idle]
    /\ served = 0
    /\ unit = NoUnit
    /\ mu = ""
    /\ hist = NoHistory

(***************************************************************************)
(* AuditMiddleware wraps the whole handler (main).  Before it calls the    *)
(* wrapped handler it builds the request half of the entry, reading the    *)
(* claims from the context of the request it was handed; after the wrapped *)
(* handler returns it adds the response status and prints the entry.       *)
(***************************************************************************)
SkipPaths == {"/health", "/ping", "/favicon.ico", "/audit-logs"}
SkipMethods == {"OPTIONS"}

\* the paths of the model are whole paths, none is an extension of a skip path
shouldSkipLogging(path, method) == path \in SkipPaths \/ method \in SkipMethods

\* the user fields of requestData, from the claims found in the context
RequestData(claims) ==
    [built |-> TRUE, emitted |-> FALSE,
     UserID |-> IF claims = NoClaims THEN "" ELSE claims.Username,
     Roles |-> IF claims = NoClaims THEN <<>> ELSE GetAllRoles(claims),
     ResponseStatus |-> 0]

\* up to the call of the wrapped handler: rec is the request as it arrived,
\* rec.claims is what its context holds
AuditBefore(rec) ==
    IF shouldSkipLogging(rec.path, rec.method) THEN rec
    ELSE [rec EXCEPT !.audit = RequestData(rec.claims)]

\* from the return of the wrapped handler: status 0 stands for the status
\* the upstream wrote through the proxy
AuditAfter(rec) ==
    IF ~rec.audit.built THEN rec
    ELSE [rec EXCEPT !.audit.ResponseStatus = rec.status, !.audit.emitted = TRUE]

(***************************************************************************)
(* A response written by the gateway itself (http.Error), and a request    *)
(* handed to the reverse proxy.  Either ends the wrapped handler, so the   *)
(* audit entry is completed in the same step.                              *)
(***************************************************************************)
Respond(rec, status, text) ==
    AuditAfter([rec EXCEPT !.pc = "done", !.status = status, !.body = text])

ProxyServe(rec) ==
    AuditAfter([rec EXCEPT !.pc = "done", !.forwarded = TRUE,
                           !.body = <<"upstream response">>])

\* AuthMiddleware.Handler from the return of IntrospectToken with a result,
\* through RBACMiddleware.Handler, to the proxy
AuthContinue(rec, result) ==
    IF ~result.Active
    THEN Respond(rec, StatusUnauthorized, <<"Token is not active">>)
    ELSE LET withClaims == [rec EXCEPT !.result = result, !.claims = result]
             out == RBACHandler(splitRulesByAuth(rec.rules).protectedRules, result)
         IN IF out.next THEN ProxyServe(withClaims)
            ELSE Respond(withClaims, out.status, <<out.body>>)

\* a middleware that lets the request through when the token cannot be checked
AuthFailOpen(rec, err) == ProxyServe(rec)
\* a middleware that writes no response when the token cannot be checked
AuthFailNoResponse(rec, err) == [rec EXCEPT !.pc = "hung"]

\* AuthMiddleware.Handler when IntrospectToken returns an error
AuthFail(rec, err) ==
    Respond(rec, StatusUnauthorized, <<"Token validation failed: ", err>>)


(***************************************************************************)
(* The HTTP handler of main: match the route, build the proxy, compose the *)
(* chain from the matched rules and serve.  With no public rule the chain  *)
(* is AuthMiddleware -> RBACMiddleware -> proxy; AuthHandler is the part   *)
(* of AuthMiddleware.Handler before the call of IntrospectToken.           *)
(***************************************************************************)
AuthHandler(rec) ==
    LET token == extractToken(rec.header)
    IN IF token = ""
       THEN Respond(rec, StatusUnauthorized, <<"Missing or invalid Authorization header">>)
       ELSE [rec EXCEPT !.pc = "introspect", !.token = token]

\* the handler with the chain composed without AuthMiddleware and RBACMiddleware
MainHandlerSkipsAuth(routes, rec) ==
    LET m == MatchRoute(routes, rec.path, rec.method)
        matched == [rec EXCEPT !.route = m.route, !.rules = m.rules]
    IN IF m.route = 0
       THEN Respond(matched, StatusNotFound, <<"Route not found">>)
       ELSE IF ~UrlParses(routes[m.route].Upstream)
       THEN Respond(matched, StatusInternalServerError, <<"Internal server error">>)
       ELSE ProxyServe(matched)

\* the handler answering 405 when only the method kept the routes from matching
MainHandlerMethodNotAllowed(routes, rec) ==
    LET m == MatchRoute(routes, rec.path, rec.method)
        matched == [rec EXCEPT !.route = m.route, !.rules = m.rules]
    IN IF m.route = 0
       THEN IF \E i \in 1..Len(routes) : MatchString(routes[i].CompiledPattern, rec.path)
            THEN Respond(matched, 405, <<"Method not allowed">>)
            ELSE Respond(matched, StatusNotFound, <<"Route not found">>)
       ELSE IF ~UrlParses(routes[m.route].Upstream)
       THEN Respond(matched, StatusInternalServerError, <<"Internal server error">>)
       ELSE IF Len(splitRulesByAuth(m.rules).publicRules) = 0
       THEN AuthHandler(matched)
       ELSE ProxyServe(matched)
\* a handler that moves on to the next eligible route when the first one
\* has no public rule and the next one has
MainHandlerLaterRouteAllows(routes, rec) ==
    LET m == MatchRoute(routes, rec.path, rec.method)
        later == MatchFrom(routes, m.route + 1, rec.path, rec.method)
        matched == [rec EXCEPT !.route = m.route, !.rules = m.rules]
    IN IF m.route = 0
       THEN Respond(matched, StatusNotFound, <<"Route not found">>)
       ELSE IF ~UrlParses(routes[m.route].Upstream)
       THEN Respond(matched, StatusInternalServerError, <<"Internal server error">>)
       ELSE IF Len(splitRulesByAuth(m.rules).publicRules) # 0
       THEN ProxyServe(matched)
       ELSE IF later.route # 0 /\ Len(splitRulesByAuth(later.rules).publicRules) # 0
       THEN ProxyServe([rec EXCEPT !.route = later.route, !.rules = later.rules])
       ELSE AuthHandler(matched)

MainHandler(routes, rec) ==
    LET m == MatchRoute(routes, rec.path, rec.method)
        matched == [rec EXCEPT !.route = m.route, !.rules = m.rules]
    IN IF m.route = 0
       THEN Respond(matched, StatusNotFound, <<"Route not found">>)
       ELSE IF ~UrlParses(routes[m.route].Upstream)
       THEN Respond(matched, StatusInternalServerError, <<"Internal server error">>)
       ELSE IF Len(splitRulesByAuth(m.rules).publicRules) = 0
       THEN AuthHandler(matched)
       ELSE ProxyServe(matched)

\* a request arrives at the server
Receive(w) ==
    /\ cfg.ok
    /\ rq[w].pc \in {"idle", "done"}
    /\ served < MaxRequests
    /\ \E path \in Paths, method \in Methods, header \in Headers :
          rq' = [rq EXCEPT ![w] = AuditBefore(
                    [Idle EXCEPT !.pc = "handler", !.path = path,
                                 !.method = method, !.header = header])]
    /\ served' = served + 1
    /\ UNCHANGED <<cfg, now, cache, unit, mu, hist>>

Handler(w) ==
    /\ rq[w].pc = "handler"
    /\ rq' = [rq EXCEPT ![w] = MainHandler(cfg.Routes, rq[w])]
    /\ UNCHANGED <<cfg, now, cache, served, unit, mu, hist>>

(***************************************************************************)
(* Client.IntrospectToken, one action per access to the cache, the clock   *)
(* or the authority.                                                       *)
(***************************************************************************)
\* a client that looks the token up but calls the authority all the same
CacheLookupAlwaysCalls(w) ==
    /\ rq[w].pc = "introspect"
    /\ cfg.CacheEnabled => mu = ""
    /\ rq' = [rq EXCEPT ![w] =
                 IF ~cfg.CacheEnabled THEN [rq[w] EXCEPT !.pc = "call"]
                 ELSE [rq[w] EXCEPT !.pc = "call", !.lookups = @ + 1]]
    /\ UNCHANGED <<cfg, now, cache, served, unit, mu, hist>>

\* a client that still returns an entry at the instant it expires
CacheLookupInclusive(w) ==
    /\ rq[w].pc = "introspect"
    /\ cfg.CacheEnabled => mu = ""
    /\ LET rec == rq[w]
           entry == cache[rec.token]
           looked == [rec EXCEPT !.lookups = @ + 1]
       IN rq' = [rq EXCEPT ![w] =
                    IF ~cfg.CacheEnabled THEN [rec EXCEPT !.pc = "call"]
                    ELSE IF ~entry.present THEN [looked EXCEPT !.pc = "call"]
                    ELSE IF now <= entry.ExpiresAt THEN AuthContinue(looked, entry.Result)
                    ELSE [looked EXCEPT !.pc = "delete"]]
    /\ UNCHANGED <<cfg, now, cache, served, unit, mu, hist>>

\* lines 72-82: the cache check, up to the removal of an expired entry
CacheLookup(w) ==
    /\ rq[w].pc = "introspect"
    /\ cfg.CacheEnabled => mu = ""
    /\ LET rec == rq[w]
           entry == cache[rec.token]
           looked == [rec EXCEPT !.lookups = @ + 1]
       IN rq' = [rq EXCEPT ![w] =
                    IF ~cfg.CacheEnabled THEN [rec EXCEPT !.pc = "call"]
                    ELSE IF ~entry.present THEN [looked EXCEPT !.pc = "call"]
                    ELSE IF now < entry.ExpiresAt THEN AuthContinue(looked, entry.Result)
                    ELSE [looked EXCEPT !.pc = "delete"]]
    /\ UNCHANGED <<cfg, now, cache, served, unit, mu, hist>>

\* line 80: c.cache.Delete(token)
CacheDelete(w) ==
    /\ rq[w].pc = "delete"
    /\ mu = ""
    /\ cache' = [cache EXCEPT ![rq[w].token] = NoEntry]
    /\ rq' = [rq EXCEPT ![w].pc = "call"]
    /\ UNCHANGED <<cfg, now, served, unit, mu, hist>>
\* a client that guards its cache with a mutex of its own and keeps it locked
\* while the authority is asked
CallUnderLock(w) ==
    /\ rq[w].pc = "call"
    /\ mu = ""
    /\ mu' = w
    /\ rq' = [rq EXCEPT ![w].pc = "wait", ![w].calls = @ + 1]
    /\ UNCHANGED <<cfg, now, cache, served, unit, hist>>

\* lines 84-98: the resolve goes past the cache and sets out to ask the
\* authority; calls counts these attempts
Call(w) ==
    /\ rq[w].pc = "call"
    /\ rq' = [rq EXCEPT ![w].pc = "wait", ![w].calls = @ + 1]
    /\ UNCHANGED <<cfg, now, cache, served, unit, mu, hist>>
\* a client that caches every result it receives, active or not
AfterCallStoresInactive(enabled, rec, out) ==
    IF out.kind # "ok" THEN AuthFail([rec EXCEPT !.fail = out.kind], out.err)
    ELSE IF enabled
        THEN [rec EXCEPT !.pc = "store", !.result = out.result]
    ELSE AuthContinue(rec, out.result)
\* a client that caches a made-up result when the call fails
AfterCallStoresOnFailure(enabled, rec, out) ==
    IF out.kind # "ok"
        THEN [rec EXCEPT !.pc = "store", !.fail = out.kind,
                         !.result = Introspection(TRUE, <<>>, <<>>, "", 0)]
    ELSE IF enabled /\ out.result.Active
        THEN [rec EXCEPT !.pc = "store", !.result = out.result]
    ELSE AuthContinue(rec, out.result)

\* a client that caches active results whether or not caching is enabled
AfterCallIgnoresFlag(enabled, rec, out) ==
    IF out.kind # "ok" THEN AuthFail([rec EXCEPT !.fail = out.kind], out.err)
    ELSE IF out.result.Active
        THEN [rec EXCEPT !.pc = "store", !.result = out.result]
    ELSE AuthContinue(rec, out.result)
\* a client that asks the authority once more when the call has failed
AfterCallRetries(enabled, rec, out) ==
    IF out.kind # "ok" /\ rec.calls < 2
    THEN [rec EXCEPT !.pc = "call", !.fail = out.kind]
    ELSE IF out.kind # "ok" THEN AuthFail([rec EXCEPT !.fail = out.kind], out.err)
    ELSE IF enabled /\ out.result.Active
        THEN [rec EXCEPT !.pc = "store", !.result = out.result]
    ELSE AuthContinue(rec, out.result)

\* lines 98-113 and 132: the call returns (an error, a non-200 status, a body
\* that does not parse, or a result)
AfterCall(enabled, rec, out) ==
    IF out.kind # "ok" THEN AuthFail([rec EXCEPT !.fail = out.kind], out.err)
    ELSE IF enabled /\ out.result.Active
        THEN [rec EXCEPT !.pc = "store", !.result = out.result]
    ELSE AuthContinue(rec, out.result)

AuthorityResponds(w) ==
    /\ rq[w].pc = "wait"
    /\ \E out \in AuthorityOutcomes :
          rq' = [rq EXCEPT ![w] = AfterCall(cfg.CacheEnabled, rq[w], out)]
    /\ UNCHANGED <<cfg, now, cache, served, unit, mu, hist>>
\* a client that ignores the token's own expiry
ExpiresAtTTLOnly(result, ttl, t) == t + ttl

\* lines 117-124: the expiry of the entry to store
ExpiresAt(result, ttl, t) ==
    IF result.Exp > 0 /\ result.Exp < t + ttl THEN result.Exp ELSE t + ttl
\* lines 126-132: c.cache.Store, then the result goes back to the middleware
CacheStore(w) ==
    /\ rq[w].pc = "store"
    /\ mu = ""
    /\ LET entry == CachedToken(rq[w].result,
                                ExpiresAt(rq[w].result, cfg.CacheTTL, now))
       IN /\ cache' = [cache EXCEPT ![rq[w].token] = entry]
          /\ hist' = [hist EXCEPT !.storedAt[rq[w].token] = now,
                                  !.lastStore[rq[w].token] = entry]
    /\ rq' = [rq EXCEPT ![w] = AuthContinue(rq[w], rq[w].result)]
    /\ UNCHANGED <<cfg, now, served, unit, mu>>

\* time passes
Tick ==
    /\ cfg.ok
    /\ now < MaxTime
    /\ now' = now + 1
    /\ UNCHANGED <<cfg, cache, rq, served, unit, mu, hist>>

Next ==
    \/ \E w \in Workers :
          \/ Receive(w)
          \/ Handler(w)
          \/ CacheLookup(w)
          \/ CacheDelete(w)
          \/ Call(w)
          \/ AuthorityResponds(w)
          \/ CacheStore(w)
    \/ Tick

Spec == Init /\ [][Next]_vars


(***************************************************************************)
(* Resolves of bearer tokens on a protected route: requests POST /a of the *)
(* tiered configuration, whose only matching rule asks for admin or        *)
(* editor.  SpecSequential serves them one after the other on one          *)
(* goroutine, SpecConcurrent on two goroutines that share the cache.       *)
(***************************************************************************)
Goroutines == {"g1", "g2"}

ResolveHeaders == {"Bearer t1", "bearer t2"}

\* how the resolve of the request in hand ended
Ended(rec) ==
    [token |-> rec.token, inactive |-> rec.body = <<"Token is not active">>]

ReceiveProtected(g) ==
    /\ rq[g].pc \in {"idle", "done"}
    /\ served < MaxRequests
    /\ \E header \in ResolveHeaders :
          rq' = [rq EXCEPT ![g] = AuditBefore(
                    [Idle EXCEPT !.pc = "handler", !.path = "/a",
                                               !.method = "POST", !.header = header])]
    /\ served' = served + 1
    /\ hist' = [hist EXCEPT !.prev = IF rq[g].pc = "done" THEN Ended(rq[g]) ELSE @]
    /\ UNCHANGED <<cfg, now, cache, unit, mu>>

InitResolve(goroutines) ==
    /\ \E enabled \in BOOLEAN : cfg = Load(RawConfig(TieredRoutes, enabled))
    /\ now = 0
    /\ cache = [t \in Tokens |-> NoEntry]
    /\ rq = [g \in goroutines |-> Idle]
    /\ served = 0
    /\ unit = NoUnit
    /\ mu = ""
    /\ hist = NoHistory

NextResolve ==
    \/ \E g \in DOMAIN rq :
          \/ ReceiveProtected(g)
          \/ Handler(g)
          \/ CacheLookup(g)
          \/ CacheDelete(g)
          \/ Call(g)
          \/ AuthorityResponds(g)
          \/ CacheStore(g)
    \/ Tick

SpecSequential == InitResolve({"g1"}) /\ [][NextResolve]_vars

SpecConcurrent == InitResolve(Goroutines) /\ [][NextResolve]_vars

(***************************************************************************)
(* Resolves of one token on two goroutines, with caching enabled and one   *)
(* request more than the other specifications serve, so that an entry can  *)
(* be stored, expire, and be found expired by two goroutines at once.  The *)
(* authority reports the token active (with or without an exp) or          *)
(* inactive, or the call times out.                                        *)
(***************************************************************************)
RaceOutcomes ==
    { [kind |-> "transport", err |-> "introspection request failed: timeout"] }
    \cup
    { [kind |-> "ok", result |-> res] :
        res \in { Introspection(FALSE, <<>>, <<>>, "", 0),
                  Introspection(TRUE, <<"admin">>, <<>>, "alice", 0),
                  Introspection(TRUE, <<"editor">>,
                                <<[Roles |-> <<"editor", "viewer">>]>>, "bob", 1) } }

ReceiveSameToken(g) ==
    /\ rq[g].pc \in {"idle", "done"}
    /\ served < MaxRequests + 1
    /\ rq' = [rq EXCEPT ![g] = AuditBefore(
                    [Idle EXCEPT !.pc = "handler", !.path = "/a",
                                            !.method = "POST", !.header = "Bearer t1"])]
    /\ served' = served + 1
    /\ UNCHANGED <<cfg, now, cache, unit, mu, hist>>

AuthorityAnswers(g) ==
    /\ rq[g].pc = "wait"
    /\ \E out \in RaceOutcomes :
          rq' = [rq EXCEPT ![g] = AfterCall(cfg.CacheEnabled, rq[g], out)]
    /\ UNCHANGED <<cfg, now, cache, served, unit, mu, hist>>

InitRace ==
    /\ cfg = Load(RawConfig(TieredRoutes, TRUE))
    /\ now = 0
    /\ cache = [t \in Tokens |-> NoEntry]
    /\ rq = [g \in Goroutines |-> Idle]
    /\ served = 0
    /\ unit = NoUnit
    /\ mu = ""
    /\ hist = NoHistory

NextRace ==
    \/ \E g \in Goroutines :
          \/ ReceiveSameToken(g)
          \/ Handler(g)
          \/ CacheLookup(g)
          \/ CacheDelete(g)
          \/ Call(g)
          \/ AuthorityAnswers(g)
          \/ CacheStore(g)
    \/ Tick

SpecRace == InitRace /\ [][NextRace]_vars

(***************************************************************************)
(* The same resolves under fair scheduling.  The Go scheduler lets every   *)
(* goroutine that can take its next step take it, and the call to the      *)
(* authority ends: with a response, or with the transport error that       *)
(* http.Client returns when its Timeout (cfg.Timeout) has elapsed.  No     *)
(* fairness is assumed for the arrival of requests or for the clock.       *)
(***************************************************************************)
\* the next step of the request that goroutine g is serving
Step(g) ==
    \/ Handler(g)
    \/ CacheLookup(g)
    \/ CacheDelete(g)
    \/ Call(g)
    \/ AuthorityAnswers(g)
    \/ CacheStore(g)

SpecFair ==
    /\ InitRace
    /\ [][NextRace]_vars
    /\ \A g \in Goroutines : WF_vars(Step(g))

(***************************************************************************)
(* Unit-level specification: one call of MatchRoute, of checkRoles or of   *)
(* RBACMiddleware.Handler on inputs drawn from bounded sets, as the        *)
(* package tests call them.                                                *)
(***************************************************************************)
SeqsUpTo(S, n) == UNION {[1..k -> S] : k \in 0..n}

UnitRules ==
    { Rule(<<"GET">>, "nil", <<"admin">>, TRUE),
      Rule(<<"POST">>, "true", <<"editor">>, FALSE),
      Rule(<<"POST", "GET">>, "false", <<>>, FALSE) }

UnitRoutes ==
    { CompileRoute(Route("r", pattern, "http://r:8080", rules)) :
        pattern \in {"^/a$", "^/B$", "^/(a|b)$"},
        rules \in SeqsUpTo(UnitRules, MaxRules) \ {<<>>} }

ProtectedRules ==
    { Rule(<<"GET">>, "nil", required, all) :
        required \in SeqsUpTo(Roles, MaxRoles), all \in BOOLEAN }

ProtectedRuleSeqs ==
    {<<>>} \cup {<<r>> : r \in ProtectedRules}
           \cup {<<r1, r2>> : r1 \in ProtectedRules, r2 \in ProtectedRules}

MatchCase(routes, path, method) ==
    [op |-> "MatchRoute", routes |-> routes, path |-> path, method |-> method,
     done |-> FALSE, out |-> [route |-> 0, rules |-> <<>>]]

CheckRolesCase(userRoles, requiredRoles, requireAll) ==
    [op |-> "checkRoles", userRoles |-> userRoles, requiredRoles |-> requiredRoles,
     requireAll |-> requireAll, done |-> FALSE, out |-> FALSE]

RBACCase(rules, claims) ==
    [op |-> "RBAC", rules |-> rules, claims |-> claims,
     done |-> FALSE, out |-> Outcome(0, "", FALSE)]

RolesCase(ir) == [op |-> "GetAllRoles", ir |-> ir, done |-> FALSE, out |-> <<>>]

\* introspection results by their role lists: a realm list and up to two
\* resource lists, names repeated within and across the lists
RoleLists == SeqsUpTo(Roles, MaxRoles)

InitUnit ==
    /\ cfg = Load(RawConfig(<<>>, FALSE))
    /\ now = 0
    /\ cache = [t \in Tokens |-> NoEntry]
    /\ rq = [w \in Workers |-> Idle]
    /\ served = 0
    /\ mu = ""
    /\ hist = NoHistory
    /\ \/ \E r1 \in UnitRoutes, path \in Paths, method \in Methods :
             \/ unit = MatchCase(<<r1>>, path, method)
             \/ \E r2 \in UnitRoutes : unit = MatchCase(<<r1, r2>>, path, method)
       \/ \E userRoles \in SeqsUpTo(Roles, MaxRoles),
             requiredRoles \in SeqsUpTo(Roles, MaxRoles),
             requireAll \in BOOLEAN :
             unit = CheckRolesCase(userRoles, requiredRoles, requireAll)
       \/ \E rules \in ProtectedRuleSeqs, claims \in Results \cup {NoClaims} :
             unit = RBACCase(rules, claims)
       \/ \E realm \in RoleLists, l1 \in RoleLists, l2 \in RoleLists :
             \E resource \in {<<>>, <<[Roles |-> l1]>>,
                               <<[Roles |-> l1], [Roles |-> l2]>>} :
                unit = RolesCase(Introspection(TRUE, realm, resource, "u", 0))

CallMatchRoute ==
    /\ unit.op = "MatchRoute" /\ ~unit.done
    /\ unit' = [unit EXCEPT !.done = TRUE,
                            !.out = MatchRoute(unit.routes, unit.path, unit.method)]
    /\ UNCHANGED <<cfg, now, cache, rq, served, mu, hist>>

CallCheckRoles ==
    /\ unit.op = "checkRoles" /\ ~unit.done
    /\ unit' = [unit EXCEPT !.done = TRUE,
                            !.out = checkRoles(unit.userRoles, unit.requiredRoles,
                                               unit.requireAll)]
    /\ UNCHANGED <<cfg, now, cache, rq, served, mu, hist>>

CallRBACHandler ==
    /\ unit.op = "RBAC" /\ ~unit.done
    /\ unit' = [unit EXCEPT !.done = TRUE, !.out = RBACHandler(unit.rules, unit.claims)]
    /\ UNCHANGED <<cfg, now, cache, rq, served, mu, hist>>

CallGetAllRoles ==
    /\ unit.op = "GetAllRoles" /\ ~unit.done
    /\ unit' = [unit EXCEPT !.done = TRUE, !.out = GetAllRoles(unit.ir)]
    /\ UNCHANGED <<cfg, now, cache, rq, served, mu, hist>>

NextUnit == CallMatchRoute \/ CallCheckRoles \/ CallRBACHandler \/ CallGetAllRoles

SpecUnit == InitUnit /\ [][NextUnit]_vars


(***************************************************************************)
(* Configuration-level specification: one call of config.Load on a         *)
(* configuration file, or of splitRulesByAuth on a list of rules, as the   *)
(* tests of the config and main packages call them.  The rules are written *)
(* as in the YAML file: methods in any case or missing, require_auth       *)
(* unset, true or false, with or without required roles.                   *)
(***************************************************************************)
RawMethodLists == {<<>>, <<"get">>, <<"Post", "PUT">>}

RawRules ==
    { Rule(methods, requireAuth, requiredRoles, TRUE) :
        methods \in RawMethodLists,
        requireAuth \in {"nil", "true", "false"},
        requiredRoles \in {<<>>, <<"admin">>} }

RawRuleSeqs == SeqsUpTo(RawRules, MaxRules)

LoadCase(raw) ==
    [op |-> "Load", raw |-> raw, done |-> FALSE, out |-> Load(RawConfig(<<>>, FALSE))]

SplitCase(rules) ==
    [op |-> "split", rules |-> rules, done |-> FALSE,
     auth |-> <<>>, out |-> splitRulesByAuth(<<>>)]

InitLoad ==
    /\ cfg = Load(RawConfig(<<>>, FALSE))
    /\ now = 0
    /\ cache = [t \in Tokens |-> NoEntry]
    /\ rq = [w \in Workers |-> Idle]
    /\ served = 0
    /\ mu = ""
    /\ hist = NoHistory
    /\ \/ \E rules \in RawRuleSeqs :
             \/ unit = LoadCase(RawConfig(<<Route("r", "^/a$", "http://r:8080", rules)>>, TRUE))
             \/ unit = LoadCase(RawConfig(<<Route("first", "^/B$", "http://f:8080", <<admGET>>),
                                            Route("r", "^/a$", "http://r:8080", rules)>>, TRUE))
             \/ unit = SplitCase(rules)
       \/ \E raw \in RawConfigs : unit = LoadCase(raw)

CallLoad ==
    /\ unit.op = "Load" /\ ~unit.done
    /\ unit' = [unit EXCEPT !.done = TRUE, !.out = Load(unit.raw)]
    /\ UNCHANGED <<cfg, now, cache, rq, served, mu, hist>>

CallSplitRulesByAuth ==
    /\ unit.op = "split" /\ ~unit.done
    /\ unit' = [unit EXCEPT !.done = TRUE,
                            !.auth = [i \in 1..Len(unit.rules) |-> RequiresAuth(unit.rules[i])],
                            !.out = splitRulesByAuth(unit.rules)]
    /\ UNCHANGED <<cfg, now, cache, rq, served, mu, hist>>

NextLoad == CallLoad \/ CallSplitRulesByAuth

SpecLoad == InitLoad /\ [][NextLoad]_vars

(***************************************************************************)
(* The Director of the reverse proxy, applied to request paths, strip      *)
(* prefixes and upstream URLs.  Strings are sequences of characters.  The  *)
(* Director first runs the director of NewSingleHostReverseProxy, which    *)
(* joins the path of the upstream URL and the request path, and then       *)
(* strips the prefix from the path it finds in the request.                *)
(***************************************************************************)
MaxPathLen == 3

Chars == {"/", "a", "b"}

HasPrefix(s, prefix) ==
    Len(prefix) <= Len(s) /\ SubSeq(s, 1, Len(prefix)) = prefix

HasSuffix(s, suffix) ==
    Len(suffix) <= Len(s) /\ SubSeq(s, Len(s) - Len(suffix) + 1, Len(s)) = suffix

TrimPrefix(s, prefix) ==
    IF HasPrefix(s, prefix) THEN SubSeq(s, Len(prefix) + 1, Len(s)) ELSE s

\* the path the director of NewSingleHostReverseProxy sets: the upstream's
\* path and the request path with one slash between them
singleJoiningSlash(a, b) ==
    LET aslash == HasSuffix(a, <<"/">>)
        bslash == HasPrefix(b, <<"/">>)
    IN IF aslash /\ bslash THEN a \o Tail(b)
       ELSE IF ~aslash /\ ~bslash THEN a \o <<"/">> \o b
       ELSE a \o b

\* req.URL.Path when the Director returns
Director(upstreamPath, stripPrefix, path) ==
    LET originalPath == singleJoiningSlash(upstreamPath, path)
    IN IF stripPrefix # <<>> /\ HasPrefix(originalPath, stripPrefix)
       THEN IF TrimPrefix(originalPath, stripPrefix) = <<>> THEN <<"/">>
            ELSE TrimPrefix(originalPath, stripPrefix)
       ELSE originalPath

\* request paths start with a slash; a strip prefix is any string
RequestPaths == {s \in SeqsUpTo(Chars, MaxPathLen) : HasPrefix(s, <<"/">>)}
StripPrefixes == SeqsUpTo(Chars, MaxPathLen)

\* the path of the parsed upstream URL: http://host, http://host/, http://host/b
UpstreamPaths == {<<>>, <<"/">>, <<"/", "b">>}

DirectorCase(upstreamPath, stripPrefix, path) ==
    [op |-> "Director", upstreamPath |-> upstreamPath, stripPrefix |-> stripPrefix,
     path |-> path, done |-> FALSE, out |-> <<>>]

InitProxy ==
    /\ cfg = Load(RawConfig(<<>>, FALSE))
    /\ now = 0
    /\ cache = [t \in Tokens |-> NoEntry]
    /\ rq = [w \in Workers |-> Idle]
    /\ served = 0
    /\ mu = ""
    /\ hist = NoHistory
    /\ \E upstreamPath \in UpstreamPaths, stripPrefix \in StripPrefixes,
          path \in RequestPaths :
          unit = DirectorCase(upstreamPath, stripPrefix, path)

CallDirector ==
    /\ unit.op = "Director" /\ ~unit.done
    /\ unit' = [unit EXCEPT !.done = TRUE,
                            !.out = Director(unit.upstreamPath, unit.stripPrefix, unit.path)]
    /\ UNCHANGED <<cfg, now, cache, rq, served, mu, hist>>

NextProxy == CallDirector

SpecProxy == InitProxy /\ [][NextProxy]_vars

(***************************************************************************)
(* Vocabulary of the properties, stated on sets and independent of the     *)
(* handlers' own loops.                                                    *)
(***************************************************************************)
\* the rule's role requirement is met by a subject holding the roles S
Satisfies(rule, S) ==
    LET required == Range(rule.RequiredRoles)
    IN \/ required = {}
       \/ IF rule.RequireAllRoles THEN required \subseteq S ELSE required \cap S # {}

HasPublic(rules) == \E i \in 1..Len(rules) : rules[i].RequireAuth = "false"
AllProtected(rules) == \A i \in 1..Len(rules) : rules[i].RequireAuth # "false"

\* the header values of the form "Bearer <non-empty token>", any case of scheme
WellFormedBearer == {"Bearer t1", "bearer t2", "BEARER t1"}

\* route i of the list is eligible for the request
Eligible(routes, i, path, method) ==
    /\ MatchString(routes[i].CompiledPattern, path)
    /\ \E j \in 1..Len(routes[i].Rules) : method \in Range(routes[i].Rules[j].Methods)

Done(w) == rq[w].pc = "done"
ProxyBuilt(rec) == UrlParses(cfg.Routes[rec.route].Upstream)


(***************************************************************************)
(* C1.  As claimed: a request is forwarded only if a route matched and     *)
(* either a matched rule does not require authentication or the credential *)
(* resolved to an active result whose roles satisfy a matched rule; every  *)
(* other request is answered 404, 401 or 403.                              *)
(***************************************************************************)
ForwardedOnlyIfAllowed ==
    \A w \in Workers :
        rq[w].forwarded =>
            /\ rq[w].route # 0
            /\ \/ HasPublic(rq[w].rules)
               \/ /\ rq[w].claims # NoClaims
                  /\ rq[w].claims.Active
                  /\ \E i \in 1..Len(rq[w].rules) :
                        Satisfies(rq[w].rules[i], RoleSet(rq[w].claims))

C1_AsClaimed ==
    /\ ForwardedOnlyIfAllowed
    /\ \A w \in Workers :
          Done(w) /\ ~rq[w].forwarded =>
              rq[w].status \in {StatusNotFound, StatusUnauthorized, StatusForbidden}

(***************************************************************************)
(* C1, amended.  A request is forwarded only if a route matched and either *)
(* a matched rule does not require authentication or the credential        *)
(* resolved to an active result whose roles satisfy a matched rule; every  *)
(* other request is answered 404, 401 or 403, or 500 when the proxy for    *)
(* the matched route cannot be built from its upstream address, and is     *)
(* not forwarded.                                                          *)
(***************************************************************************)
C1_ForwardDecision ==
    /\ ForwardedOnlyIfAllowed
    /\ \A w \in Workers :
          Done(w) /\ ~rq[w].forwarded =>
              \/ rq[w].status \in {StatusNotFound, StatusUnauthorized, StatusForbidden}
              \/ /\ rq[w].status = StatusInternalServerError
                 /\ rq[w].route # 0
                 /\ ~ProxyBuilt(rq[w])

\* a request forwarded on the strength of its roles alone
C1_Witness ==
    \E w \in Workers :
        /\ Done(w) /\ rq[w].forwarded
        /\ ~HasPublic(rq[w].rules)
        /\ rq[w].claims # NoClaims
        /\ Len(rq[w].rules) = 2


(***************************************************************************)
(* C2.  As claimed: when a matched rule does not require authentication    *)
(* the request is forwarded with no introspection call and no cache        *)
(* lookup, whatever its credential and its other matched rules.            *)
(***************************************************************************)
C2_AsClaimed ==
    \A w \in Workers :
        rq[w].route # 0 /\ HasPublic(rq[w].rules) =>
            /\ Done(w) /\ rq[w].forwarded
            /\ rq[w].calls = 0 /\ rq[w].lookups = 0

(***************************************************************************)
(* C2, amended.  When a matched rule does not require authentication the   *)
(* request is allowed with no introspection call and no cache lookup,      *)
(* whatever its credential and its other matched rules; it is forwarded,   *)
(* unless the proxy for the matched route cannot be built from its         *)
(* upstream address, in which case it is answered 500.                     *)
(***************************************************************************)
C2_PublicRuleBypassesAuth ==
    \A w \in Workers :
        rq[w].route # 0 /\ HasPublic(rq[w].rules) =>
            /\ Done(w)
            /\ rq[w].calls = 0 /\ rq[w].lookups = 0
            /\ rq[w].claims = NoClaims
            /\ IF ProxyBuilt(rq[w]) THEN rq[w].forwarded
               ELSE ~rq[w].forwarded /\ rq[w].status = StatusInternalServerError

\* a request without credential forwarded although a protected rule matched too
C2_Witness ==
    \E w \in Workers :
        /\ Done(w) /\ rq[w].forwarded
        /\ HasPublic(rq[w].rules) /\ ~AllProtected(rq[w].rules)
        /\ \E i \in 1..Len(rq[w].rules) : rq[w].rules[i].RequiredRoles # <<>>
        /\ rq[w].header = ""

(***************************************************************************)
(* C3.  MatchRoute returns the first route, in configuration order, whose  *)
(* pattern matches the path and which has a rule whose methods hold the    *)
(* request method; routes whose pattern matches but whose rules do not     *)
(* allow the method are passed over.                                       *)
(***************************************************************************)
C3_FirstEligibleRoute ==
    unit.op = "MatchRoute" /\ unit.done =>
        LET ok(i) == Eligible(unit.routes, i, unit.path, unit.method)
        IN IF \E i \in 1..Len(unit.routes) : ok(i)
           THEN /\ unit.out.route \in 1..Len(unit.routes)
                /\ ok(unit.out.route)
                /\ \A i \in 1..(unit.out.route - 1) : ~ok(i)
           ELSE unit.out.route = 0

\* the first route matches the path but not the method; the second is returned
C3_Witness ==
    /\ unit.op = "MatchRoute" /\ unit.done
    /\ unit.out.route = 2
    /\ MatchString(unit.routes[1].CompiledPattern, unit.path)

(***************************************************************************)
(* C4.  A request for which no route has both a matching pattern and a     *)
(* rule allowing its method gets no route and no rules from MatchRoute and *)
(* is answered 404, whether no pattern matches the path or a pattern       *)
(* matches and no rule of that route allows the method.                    *)
(***************************************************************************)
C4_NoEligibleRouteIsNotFound ==
    \A w \in Workers :
        (/\ rq[w].pc \notin {"idle", "handler"}
         /\ \A i \in 1..Len(cfg.Routes) :
                ~Eligible(cfg.Routes, i, rq[w].path, rq[w].method))
        => /\ Done(w)
           /\ rq[w].route = 0 /\ rq[w].rules = <<>>
           /\ rq[w].status = StatusNotFound
           /\ ~rq[w].forwarded
           /\ rq[w].calls = 0

\* 404 for a path that a route's pattern matches
C4_Witness ==
    \E w \in Workers :
        /\ Done(w) /\ rq[w].status = StatusNotFound
        /\ \E i \in 1..Len(cfg.Routes) :
              MatchString(cfg.Routes[i].CompiledPattern, rq[w].path)

(***************************************************************************)
(* C5.  The rules MatchRoute returns with a route are exactly the rules of *)
(* that route whose methods hold the request method, in their configured   *)
(* order.                                                                  *)
(***************************************************************************)
C5_ExactlyTheMatchingRules ==
    unit.op = "MatchRoute" /\ unit.done /\ unit.out.route # 0 =>
        LET all == unit.routes[unit.out.route].Rules
            idx == {j \in 1..Len(all) : unit.method \in Range(all[j].Methods)}
            got == unit.out.rules
        IN /\ Len(got) = Cardinality(idx)
           /\ \E f \in [1..Len(got) -> idx] :
                 /\ \A k \in 1..Len(got) : got[k] = all[f[k]]
                 /\ \A k, l \in 1..Len(got) : k < l => f[k] < f[l]

\* a rule of the matched route is left out
C5_Witness ==
    /\ unit.op = "MatchRoute" /\ unit.done /\ unit.out.route # 0
    /\ Len(unit.out.rules) < Len(unit.routes[unit.out.route].Rules)


(***************************************************************************)
(* C6.  With authenticated claims and only protected rules, the RBAC       *)
(* middleware calls the next handler if and only if the subject's roles    *)
(* satisfy at least one of the rules; otherwise it answers 403 and does    *)
(* not call the next handler.                                              *)
(***************************************************************************)
C6_AllowIffSomeRuleSatisfied ==
    (/\ unit.op = "RBAC" /\ unit.done
     /\ unit.claims # NoClaims
     /\ AllProtected(unit.rules))
    => LET some == \E i \in 1..Len(unit.rules) :
                       Satisfies(unit.rules[i], RoleSet(unit.claims))
       IN /\ unit.out.next <=> some
          /\ ~some => unit.out.status = StatusForbidden

\* the first rule is not satisfied, the second is, and the request passes
C6_Witness ==
    /\ unit.op = "RBAC" /\ unit.done
    /\ unit.claims # NoClaims
    /\ Len(unit.rules) = 2
    /\ ~Satisfies(unit.rules[1], RoleSet(unit.claims))
    /\ Satisfies(unit.rules[2], RoleSet(unit.claims))
    /\ unit.out.next

(***************************************************************************)
(* C7.  As claimed: checkRoles in ALL mode is true iff the subject's roles *)
(* include every required role, and in ANY mode iff the subject holds at   *)
(* least one required role, for every rule.                                *)
(***************************************************************************)
C7_AsClaimed ==
    unit.op = "checkRoles" /\ unit.done =>
        LET user == Range(unit.userRoles)
            required == Range(unit.requiredRoles)
        IN IF unit.requireAll
           THEN unit.out <=> required \subseteq user
           ELSE unit.out <=> required \cap user # {}

(***************************************************************************)
(* C7, amended.  checkRoles in ALL mode is true iff the subject's roles    *)
(* include every required role; in ANY mode it is true iff the required    *)
(* set is empty or the subject holds at least one required role.           *)
(***************************************************************************)
C7_RoleSatisfaction ==
    unit.op = "checkRoles" /\ unit.done =>
        LET user == Range(unit.userRoles)
            required == Range(unit.requiredRoles)
        IN IF unit.requireAll
           THEN unit.out <=> required \subseteq user
           ELSE unit.out <=> (required = {} \/ required \cap user # {})

\* ANY mode satisfied by a subject that holds one of two required roles
C7_Witness ==
    /\ unit.op = "checkRoles" /\ unit.done
    /\ ~unit.requireAll /\ unit.out
    /\ Range(unit.requiredRoles) \cap Range(unit.userRoles) # {}
    /\ ~(Range(unit.requiredRoles) \subseteq Range(unit.userRoles))

(***************************************************************************)
(* C8.  A rule with no required roles is satisfied by every subject, one   *)
(* without roles included, in ALL mode and in ANY mode.                    *)
(***************************************************************************)
C8_EmptyRequirementSatisfied ==
    unit.op = "checkRoles" /\ unit.done /\ unit.requiredRoles = <<>> => unit.out

\* ANY mode, no required roles, a subject without roles
C8_Witness ==
    /\ unit.op = "checkRoles" /\ unit.done
    /\ unit.requiredRoles = <<>> /\ unit.userRoles = <<>>
    /\ ~unit.requireAll /\ unit.out

(***************************************************************************)
(* C9.  As claimed: when every matched rule requires authentication and    *)
(* the Authorization header is missing or not "Bearer <token>", the        *)
(* response is 401 with no introspection call and nothing forwarded; and   *)
(* the RBAC middleware answers 401 to a request without claims.            *)
(***************************************************************************)
RBACWithoutClaimsIsUnauthorized ==
    \A rules \in ProtectedRuleSeqs :
        /\ RBACHandler(rules, NoClaims).status = StatusUnauthorized
        /\ ~RBACHandler(rules, NoClaims).next

NoUsableCredential(w) ==
    /\ rq[w].pc \notin {"idle", "handler"}
    /\ rq[w].route # 0
    /\ AllProtected(rq[w].rules)
    /\ rq[w].header \notin WellFormedBearer

\* a header of the Bearer form, in any case of the scheme, yields its token
BearerAccepted ==
    \A w \in Workers :
        (/\ rq[w].pc \notin {"idle", "handler"}
         /\ rq[w].route # 0 /\ AllProtected(rq[w].rules) /\ ProxyBuilt(rq[w])
         /\ rq[w].header \in WellFormedBearer)
        => rq[w].token \in Tokens

C9_AsClaimed ==
    /\ \A w \in Workers :
          NoUsableCredential(w) =>
              /\ Done(w) /\ rq[w].status = StatusUnauthorized
              /\ rq[w].calls = 0 /\ ~rq[w].forwarded
    /\ BearerAccepted
    /\ RBACWithoutClaimsIsUnauthorized

(***************************************************************************)
(* C9, amended.  When every matched rule requires authentication and the   *)
(* proxy for the matched route could be built, a request whose             *)
(* Authorization header is missing or not "Bearer <token>" is answered 401 *)
(* with no introspection call and nothing forwarded (when the proxy cannot *)
(* be built the answer is 500, again with no call and nothing forwarded);  *)
(* and the RBAC middleware answers 401 to a request without claims.        *)
(***************************************************************************)
C9_MissingCredentialUnauthorized ==
    /\ \A w \in Workers :
          NoUsableCredential(w) =>
              /\ Done(w)
              /\ rq[w].status = IF ProxyBuilt(rq[w]) THEN StatusUnauthorized
                                ELSE StatusInternalServerError
              /\ rq[w].calls = 0 /\ rq[w].lookups = 0 /\ ~rq[w].forwarded
    /\ BearerAccepted
    /\ RBACWithoutClaimsIsUnauthorized

\* a Basic credential on a protected route
C9_Witness ==
    \E w \in Workers :
        /\ NoUsableCredential(w) /\ Done(w)
        /\ rq[w].header = "Basic t1"
        /\ rq[w].status = StatusUnauthorized

(***************************************************************************)
(* C10.  Whatever the kind of failure of the introspection call (transport *)
(* error, status other than 200, body that does not parse), the request    *)
(* gets no claims, is answered 401 and is not forwarded.                   *)
(***************************************************************************)
C10_IntrospectionFailureUnauthorized ==
    \A w \in Workers :
        rq[w].fail \in {"transport", "status", "parse"} =>
            /\ Done(w)
            /\ rq[w].claims = NoClaims
            /\ rq[w].status = StatusUnauthorized
            /\ ~rq[w].forwarded

\* the authority's answer did not parse
C10_Witness ==
    \E w \in Workers :
        /\ Done(w) /\ rq[w].fail = "parse" /\ rq[w].calls = 1
        /\ rq[w].status = StatusUnauthorized

(***************************************************************************)
(* C11.  A result the authority reports inactive goes back to the          *)
(* middleware, which answers 401 without forwarding, and is not stored:    *)
(* every cache entry holds an active result, the token has no entry when   *)
(* that request is done, and the resolve of the same token that follows    *)
(* immediately calls the authority again.                                  *)
(***************************************************************************)
AnsweredInactive(rec) == rec.pc = "done" /\ rec.body = <<"Token is not active">>

C11_InactiveNeverCached ==
    /\ \A t \in Tokens : cache[t].present => cache[t].Result.Active
    /\ \A g \in DOMAIN rq :
          /\ AnsweredInactive(rq[g]) =>
                /\ rq[g].status = StatusUnauthorized
                /\ ~rq[g].forwarded
                /\ rq[g].calls = 1
                /\ ~cache[rq[g].token].present
          /\ (rq[g].pc = "done" /\ hist.prev.inactive
                 /\ hist.prev.token = rq[g].token) => rq[g].calls = 1

\* inactive at the first resolve of t1, active and allowed at the next
C11_Witness ==
    /\ rq["g1"].pc = "done"
    /\ hist.prev.inactive /\ hist.prev.token = "t1" /\ rq["g1"].token = "t1"
    /\ rq["g1"].calls = 1 /\ rq["g1"].forwarded
    /\ cache["t1"].present

(***************************************************************************)
(* C12.  With caching enabled, a resolve that finds an entry for its token *)
(* whose expiry is in the future hands the entry's stored result to the    *)
(* middleware and finishes without a call to the authority, leaving the    *)
(* cache as it was.                                                        *)
(***************************************************************************)
\* the step of goroutine g that checks the cache
LooksUp(g) == rq[g].pc = "introspect" /\ rq'[g] # rq[g]

FreshEntry(t) == cfg.CacheEnabled /\ cache[t].present /\ now < cache[t].ExpiresAt

C12_CacheHitMakesNoCall ==
    [][\A g \in DOMAIN rq :
          (LooksUp(g) /\ FreshEntry(rq[g].token)) =>
              /\ rq'[g].pc = "done"
              /\ rq'[g].calls = 0
              /\ rq'[g].claims = cache[rq[g].token].Result
              /\ cache' = cache]_vars

\* the second resolve of a token, answered from the entry the first one stored
C12_Witness ==
    \E g \in DOMAIN rq :
        /\ rq[g].pc = "done" /\ rq[g].calls = 0 /\ rq[g].lookups = 1
        /\ rq[g].claims # NoClaims /\ rq[g].forwarded
        /\ hist.lastStore[rq[g].token] = cache[rq[g].token]
        /\ served = 2

(***************************************************************************)
(* C13.  A resolve never returns an entry once the clock is at or past the *)
(* entry's expiry: the lookup that finds such an entry goes on to remove   *)
(* it, the removal empties the token's slot, and the resolve then calls    *)
(* the authority.                                                          *)
(***************************************************************************)
ExpiredEntry(t) == cfg.CacheEnabled /\ cache[t].present /\ now >= cache[t].ExpiresAt

C13_ExpiredEntryNeverReturned ==
    [][\A g \in DOMAIN rq :
          /\ (LooksUp(g) /\ ExpiredEntry(rq[g].token)) =>
                 /\ rq'[g].pc = "delete"
                 /\ rq'[g].claims = NoClaims
          /\ (rq[g].pc = "delete" /\ rq'[g] # rq[g]) =>
                 /\ ~cache'[rq[g].token].present
                 /\ rq'[g].pc = "call"
          /\ (rq[g].pc = "call" /\ rq'[g] # rq[g]) =>
                 /\ rq'[g].pc = "wait"
                 /\ rq'[g].calls = rq[g].calls + 1]_vars

\* an entry was found expired, removed, and the authority asked again
C13_Witness ==
    \E g \in DOMAIN rq :
        /\ rq[g].pc = "wait" /\ rq[g].lookups = 1 /\ rq[g].calls = 1
        /\ hist.lastStore[rq[g].token].present
        /\ hist.lastStore[rq[g].token].ExpiresAt = now
        /\ ~cache[rq[g].token].present

(***************************************************************************)
(* C14.  Every entry is stored with expiry = min(time of the store + cache *)
(* TTL, the result's own exp when it carries one, i.e. exp > 0), and a     *)
(* resolve answered from the cache happens less than the cache TTL after   *)
(* the entry was stored.                                                   *)
(***************************************************************************)
MinOf(S) == CHOOSE x \in S : \A y \in S : x <= y

ExpiryBounds(entry, storedAt) ==
    {storedAt + cfg.CacheTTL} \cup
        (IF entry.Result.Exp > 0 THEN {entry.Result.Exp} ELSE {})

C14_ExpiryIsMinOfTTLAndExp ==
    [][/\ \A t \in Tokens :
             cache'[t].present =>
                 cache'[t].ExpiresAt = MinOf(ExpiryBounds(cache'[t], hist'.storedAt[t]))
       /\ \A g \in DOMAIN rq :
             (LooksUp(g) /\ cfg.CacheEnabled /\ rq'[g].pc = "done") =>
                 /\ cache[rq[g].token].present
                 /\ now < hist.storedAt[rq[g].token] + cfg.CacheTTL]_vars

\* an entry whose expiry is the token's exp, earlier than the TTL allows,
\* and a resolve answered from it
C14_Witness ==
    \E g \in DOMAIN rq :
        /\ rq[g].pc = "done" /\ rq[g].calls = 0 /\ rq[g].lookups = 1
        /\ cache[rq[g].token].present
        /\ cache[rq[g].token].ExpiresAt = cache[rq[g].token].Result.Exp
        /\ cache[rq[g].token].ExpiresAt < hist.storedAt[rq[g].token] + cfg.CacheTTL
        /\ rq[g].claims = cache[rq[g].token].Result

(***************************************************************************)
(* C15.  When the call to the authority fails (transport error, status     *)
(* other than 200, body that does not parse) the resolve ends with an      *)
(* error and no result, and no step of a failed resolve touches the cache: *)
(* a failure neither creates nor replaces an entry.                        *)
(***************************************************************************)
C15_FailureStoresNothing ==
    [][\A g \in DOMAIN rq :
          (rq'[g] # rq[g] /\ rq'[g].fail # "") =>
              /\ rq'[g].pc = "done"
              /\ rq'[g].result = NoResult
              /\ rq'[g].claims = NoClaims
              /\ cache' = cache]_vars

\* the call fails after an expired entry of the token was removed: the
\* token is left without an entry
C15_Witness ==
    \E g \in DOMAIN rq :
        /\ rq[g].pc = "done" /\ rq[g].fail = "status" /\ rq[g].calls = 1
        /\ hist.lastStore[rq[g].token].present
        /\ ~cache[rq[g].token].present
        /\ rq[g].result = NoResult

OccursIn(r, ir) ==
    \/ \E i \in DOMAIN ir.RealmAccess.Roles : ir.RealmAccess.Roles[i] = r
    \/ \E k \in DOMAIN ir.ResourceAccess :
          \E i \in DOMAIN ir.ResourceAccess[k].Roles : ir.ResourceAccess[k].Roles[i] = r

C17_RolesAreTheUnionOnce ==
    (unit.op = "GetAllRoles" /\ unit.done) =>
        \A r \in Roles :
            Cardinality({i \in DOMAIN unit.out : unit.out[i] = r})
                = (IF OccursIn(r, unit.ir) THEN 1 ELSE 0)

\* admin in the realm list and in a resource list next to editor
C17_Witness ==
    /\ unit.op = "GetAllRoles" /\ unit.done
    /\ unit.ir.RealmAccess.Roles = <<"admin">>
    /\ unit.ir.ResourceAccess = <<[Roles |-> <<"admin", "editor">>]>>
    /\ Len(unit.out) = 2

(***************************************************************************)
(* C18.  The response to a failed authentication does not depend on the    *)
(* authority's raw error: two requests with the same path, method and      *)
(* Authorization header whose introspection calls both came back with a    *)
(* status other than 200 get the same status and the same body, whatever   *)
(* status and body the authority sent.                                     *)
(***************************************************************************)
SameRequest(a, b) == a.path = b.path /\ a.method = b.method /\ a.header = b.header

C18_AsClaimed ==
    \A g \in DOMAIN rq, h \in DOMAIN rq :
        (/\ rq[g].pc = "done" /\ rq[h].pc = "done"
         /\ SameRequest(rq[g], rq[h])
         /\ rq[g].fail = "status" /\ rq[h].fail = "status") =>
            /\ rq[g].status = rq[h].status
            /\ rq[g].body = rq[h].body

(***************************************************************************)
(* C19.  While the call of a goroutine to the authority is in flight that  *)
(* goroutine does not hold the lock of the cache, and the next step of     *)
(* every other goroutine resolving a different token (lookup, removal,     *)
(* call, return of its call, store) can be taken: a call that does not     *)
(* return blocks nobody else.                                              *)
(***************************************************************************)
CanStep(h) ==
    /\ rq[h].pc = "introspect" => ENABLED CacheLookup(h)
    /\ rq[h].pc = "delete" => ENABLED CacheDelete(h)
    /\ rq[h].pc = "call" => ENABLED Call(h)
    /\ rq[h].pc = "wait" => ENABLED AuthorityResponds(h)
    /\ rq[h].pc = "store" => ENABLED CacheStore(h)

C19_NoCallUnderSharedLock ==
    \A g \in DOMAIN rq :
        rq[g].pc = "wait" =>
            /\ mu # g
            /\ \A h \in DOMAIN rq \ {g} :
                  rq[h].token # rq[g].token => CanStep(h)

\* g1 waits for the authority on t1 while g2 is about to store its result
\* for t2
C19_Witness ==
    /\ rq["g1"].pc = "wait" /\ rq["g1"].token = "t1"
    /\ rq["g2"].pc = "store" /\ rq["g2"].token = "t2"

(***************************************************************************)
(* C20.  Goroutines that go past the cache for the same token at the same  *)
(* time each make their own call, and once they have finished the token's  *)
(* entry is the whole entry written by the last store: when one of two     *)
(* such goroutines stored and the entry it or a later store wrote has not  *)
(* expired yet, the cache holds exactly that entry.                        *)
(***************************************************************************)
WentPastCache(rec) == rec.pc = "done" /\ rec.lookups = 1 /\ rec.calls = 1

MissedAndStored(rec) ==
    WentPastCache(rec) /\ rec.fail = "" /\ rec.claims # NoClaims

C20_AsClaimed ==
    \A g \in DOMAIN rq, h \in DOMAIN rq :
        (/\ g # h /\ rq[g].token = rq[h].token
         /\ WentPastCache(rq[g]) /\ WentPastCache(rq[h])
         /\ MissedAndStored(rq[g]) \/ MissedAndStored(rq[h])
         /\ hist.lastStore[rq[g].token].present
         /\ now < hist.lastStore[rq[g].token].ExpiresAt) =>
            /\ cache[rq[g].token].present
            /\ cache[rq[g].token] = hist.lastStore[rq[g].token]

(***************************************************************************)
(* C21.  Load fails, returning no configuration, whenever some rule of     *)
(* some route is public (require_auth false) and lists required roles; so  *)
(* in every configuration that loads each public rule has no required      *)
(* roles.                                                                  *)
(***************************************************************************)
PublicWithRoles(rule) == rule.RequireAuth = "false" /\ rule.RequiredRoles # <<>>

AllRulesOf(routes) == UNION {Range(routes[i].Rules) : i \in 1..Len(routes)}

LoadFailed(out) == ~out.ok /\ out.err # "" /\ out.Routes = <<>>

C21_PublicRuleWithRolesRejected ==
    (unit.op = "Load" /\ unit.done) =>
        /\ (\E rule \in AllRulesOf(unit.raw.Routes) : PublicWithRoles(rule))
              => LoadFailed(unit.out)
        /\ unit.out.ok =>
              \A rule \in AllRulesOf(unit.out.Routes) : ~PublicWithRoles(rule)

\* the offending rule is the second rule of the second route, after rules
\* that pass
C21_Witness ==
    /\ unit.op = "Load" /\ unit.done
    /\ Len(unit.raw.Routes) = 2
    /\ Len(unit.raw.Routes[2].Rules) = 2
    /\ ~PublicWithRoles(unit.raw.Routes[2].Rules[1])
    /\ unit.raw.Routes[2].Rules[1].Methods # <<>>
    /\ PublicWithRoles(unit.raw.Routes[2].Rules[2])
    /\ unit.raw.Routes[2].Rules[2].Methods # <<>>
    /\ unit.out.err = "rules with require_auth=false cannot define required_roles"

(***************************************************************************)
(* C22.  In every configuration that loads, each route has at least one    *)
(* rule and each rule at least one method, and the methods are stored in   *)
(* uppercase, as many as were written; a route without rules or a rule     *)
(* without methods makes Load fail with an error and no configuration.     *)
(***************************************************************************)
UppercaseMethod(m) == m \in {"GET", "POST", "PUT"}

C22_RulesAndUppercaseMethods ==
    (unit.op = "Load" /\ unit.done) =>
        /\ unit.out.ok =>
              \A i \in 1..Len(unit.out.Routes) :
                  /\ Len(unit.out.Routes[i].Rules) >= 1
                  /\ \A j \in 1..Len(unit.out.Routes[i].Rules) :
                        LET stored == unit.out.Routes[i].Rules[j].Methods
                        IN /\ Len(stored) >= 1
                           /\ Len(stored) = Len(unit.raw.Routes[i].Rules[j].Methods)
                           /\ \A k \in 1..Len(stored) : UppercaseMethod(stored[k])
        /\ (\E i \in 1..Len(unit.raw.Routes) :
               \/ unit.raw.Routes[i].Rules = <<>>
               \/ \E rule \in Range(unit.raw.Routes[i].Rules) : rule.Methods = <<>>)
              => LoadFailed(unit.out)

\* methods written "Post", "PUT" and "get" are stored "POST", "PUT" and "GET"
C22_Witness ==
    /\ unit.op = "Load" /\ unit.done /\ unit.out.ok
    /\ Len(unit.raw.Routes) = 1 /\ Len(unit.raw.Routes[1].Rules) = 2
    /\ unit.raw.Routes[1].Rules[1].Methods = <<"Post", "PUT">>
    /\ unit.raw.Routes[1].Rules[2].Methods = <<"get">>
    /\ unit.out.Routes[1].Rules[1].Methods = <<"POST", "PUT">>
    /\ unit.out.Routes[1].Rules[2].Methods = <<"GET">>

(***************************************************************************)
(* C23.  RequiresAuth is true for a rule whose require_auth is unset or    *)
(* true and false only for one whose require_auth is false, so             *)
(* splitRulesByAuth puts every rule that leaves require_auth unset among   *)
(* the protected rules: the protected rules are the rules not explicitly   *)
(* public, the public rules the explicitly public ones, both in order.     *)
(***************************************************************************)
C23_UnsetMeansProtected ==
    (unit.op = "split" /\ unit.done) =>
        /\ \A i \in 1..Len(unit.rules) :
              unit.auth[i] = (unit.rules[i].RequireAuth # "false")
        /\ unit.out.protectedRules =
              SelectSeq(unit.rules, LAMBDA rule : rule.RequireAuth \in {"nil", "true"})
        /\ unit.out.publicRules =
              SelectSeq(unit.rules, LAMBDA rule : rule.RequireAuth = "false")

\* a rule that leaves require_auth unset next to an explicitly public one
C23_Witness ==
    /\ unit.op = "split" /\ unit.done
    /\ Len(unit.rules) = 2
    /\ unit.rules[1].RequireAuth = "false"
    /\ unit.rules[2].RequireAuth = "nil"
    /\ unit.auth = <<FALSE, TRUE>>
    /\ unit.out.protectedRules = <<unit.rules[2]>>

(***************************************************************************)
(* C24.  As claimed: the audit entry printed for a request whose           *)
(* credential resolved to an active result carries the Username of that    *)
(* result as the user and its role set as the roles.  AuditMiddleware      *)
(* reads the claims before it calls the wrapped handler, and from the      *)
(* request it was handed, so the entry of an authenticated request carries *)
(* no user and no roles.                                                   *)
(***************************************************************************)
C24_AsClaimed ==
    \A w \in DOMAIN rq :
        (Done(w) /\ rq[w].audit.emitted /\ rq[w].claims # NoClaims) =>
            /\ rq[w].audit.UserID = rq[w].claims.Username
            /\ Range(rq[w].audit.Roles) = RoleSet(rq[w].claims)

(***************************************************************************)
(* C25.  A request causes at most one call to the authority.  A call that  *)
(* fails (request not built, transport error or timeout, status other than *)
(* 200, unreadable body) ends the request with that one call made; a       *)
(* lookup that finds a fresh entry ends the request with no call made; a   *)
(* request whose matched rules include a public one ends with no call      *)
(* made.                                                                   *)
(***************************************************************************)
\* the step of w that runs the handler of main on a request
Handles(w) == rq[w].pc = "handler" /\ rq'[w] # rq[w]

C25_AtMostOneCallPerRequest ==
    [][\A w \in DOMAIN rq :
          /\ rq'[w].calls <= 1
          /\ rq'[w].fail # "" => (rq'[w].pc = "done" /\ rq'[w].calls = 1)
          /\ rq[w].fail # "" => (rq'[w] = rq[w] \/ rq'[w].pc = "handler")
          /\ (LooksUp(w) /\ FreshEntry(rq[w].token)) =>
                 (rq'[w].pc = "done" /\ rq'[w].calls = 0)
          /\ (Handles(w) /\ HasPublic(rq'[w].rules)) =>
                 (rq'[w].pc = "done" /\ rq'[w].calls = 0)]_vars

\* a request whose one call timed out, answered 401
C25_Witness ==
    \E w \in DOMAIN rq :
        /\ Done(w) /\ rq[w].fail = "transport" /\ rq[w].calls = 1
        /\ rq[w].status = StatusUnauthorized /\ ~rq[w].forwarded

(***************************************************************************)
(* C26.  Under fair scheduling, with an authority call that ends in a      *)
(* response or in the timeout error, every request that has arrived is     *)
(* eventually answered; once answered its response is not written again    *)
(* (the record of the request stays as it is until the goroutine takes a   *)
(* new request); and a request whose call ended in the timeout error is    *)
(* answered 401 and not forwarded.                                         *)
(***************************************************************************)
InFlight(g) == rq[g].pc \notin {"idle", "done"}

C26_EveryRequestIsAnsweredOnce ==
    /\ \A g \in Goroutines : InFlight(g) ~> Done(g)
    /\ [][\A g \in Goroutines :
             /\ Done(g) => (rq'[g] = rq[g] \/ (rq'[g].pc = "handler" /\ served' = served + 1))
             /\ rq'[g].fail = "transport" =>
                    /\ Done(g)'
                    /\ rq'[g].status = StatusUnauthorized
                    /\ ~rq'[g].forwarded]_vars

\* both goroutines' calls timed out and both requests were answered 401
C26_Witness ==
    \A g \in Goroutines :
        /\ Done(g) /\ rq[g].fail = "transport" /\ rq[g].calls = 1
        /\ rq[g].status = StatusUnauthorized

(***************************************************************************)
(* C27.  As claimed: the path sent upstream is the request path without    *)
(* the strip prefix ("/" if nothing remains) when a prefix is configured   *)
(* and the request path starts with it, and the request path unchanged     *)
(* otherwise.  The Director strips the prefix from the path already joined *)
(* to the upstream URL's path, so with an upstream URL that has a path the *)
(* prefix is looked for in the wrong string.                               *)
(***************************************************************************)
C27_AsClaimed ==
    (unit.op = "Director" /\ unit.done) =>
        unit.out =
            IF unit.stripPrefix # <<>> /\ HasPrefix(unit.path, unit.stripPrefix)
            THEN IF TrimPrefix(unit.path, unit.stripPrefix) = <<>> THEN <<"/">>
                 ELSE TrimPrefix(unit.path, unit.stripPrefix)
            ELSE unit.path

(***************************************************************************)
(* C28.  As claimed: the removal made by a resolve that found an expired   *)
(* entry removes only an expired entry, never a fresh one that another     *)
(* request has stored for the token in the meantime.  cache.Delete removes *)
(* whatever entry the token has when it runs.                              *)
(***************************************************************************)
\* the step of goroutine g that removes the token's entry
Removes(g) == rq[g].pc = "delete" /\ rq'[g].pc = "call"

C28_AsClaimed ==
    [][\A g \in DOMAIN rq :
          Removes(g) => ~FreshEntry(rq[g].token)]_vars

(***************************************************************************)
(* C29.  Permuting the rules of the routes changes no decision.  Whatever  *)
(* the order of each route's rules, the handler of main takes a request to *)
(* the same point (answered with the same status and body, forwarded, or   *)
(* handed to the authentication step) with the same matched rules in some  *)
(* order; and once the token is resolved, the authentication and role      *)
(* check reach the same outcome for the matched rules in any order.        *)
(***************************************************************************)
\* the rearrangements of a list
Perms(s) ==
    { [i \in 1..Len(s) |-> s[f[i]]] :
        f \in {g \in [1..Len(s) -> 1..Len(s)] : \A i, j \in 1..Len(s) : g[i] = g[j] => i = j} }

\* the route lists that differ from routes in the order of one route's rules
RulesPermuted(routes) ==
    UNION { {[routes EXCEPT ![i].Rules = p] : p \in Perms(routes[i].Rules)}
              : i \in 1..Len(routes) }

\* two records of a request that differ at most in the order of the rules
SameButRuleOrder(a, b) ==
    /\ a.rules \in Perms(b.rules)
    /\ [a EXCEPT !.rules = <<>>] = [b EXCEPT !.rules = <<>>]

\* the step of w that ends the request once its token is resolved
Resolves(w) ==
    /\ rq[w].pc \in {"introspect", "wait", "store"}
    /\ rq'[w].pc = "done" /\ rq'[w].fail = ""

C29_RuleOrderIsIrrelevant ==
    [][\A w \in DOMAIN rq :
          /\ Handles(w) =>
                \A routes \in RulesPermuted(cfg.Routes) :
                    SameButRuleOrder(MainHandler(routes, rq[w]), rq'[w])
          /\ Resolves(w) =>
                \A rules \in Perms(rq[w].rules), result \in Results :
                    SameButRuleOrder(AuthContinue([rq[w] EXCEPT !.rules = rules], result),
                                     AuthContinue(rq[w], result))]_vars

\* a request forwarded on the second of its two matched rules: the subject
\* does not satisfy the first
C29_Witness ==
    \E w \in DOMAIN rq :
        /\ Done(w) /\ rq[w].forwarded /\ rq[w].claims # NoClaims
        /\ Len(rq[w].rules) = 2
        /\ ~Satisfies(rq[w].rules[1], RoleSet(rq[w].claims))
        /\ Satisfies(rq[w].rules[2], RoleSet(rq[w].claims))

(***************************************************************************)
(* C30.  The decision for a request is the decision of the first eligible  *)
(* route alone: the request is forwarded if and only if the rules of that  *)
(* route that allow its method include a public one, or its token resolved *)
(* to claims that satisfy one of them; otherwise it is answered 401 or     *)
(* 403, whether or not a later route matches the path and method and       *)
(* would allow the request.  (A route whose proxy cannot be built is left  *)
(* to C1 and C9.)                                                          *)
(***************************************************************************)
\* the rules of the route that allow the method, in order
RulesFor(route, method) ==
    SelectSeq(route.Rules, LAMBDA rule : method \in Range(rule.Methods))

\* a route after the one taken is eligible too and would let anyone through
LaterRouteWouldAllow(rec) ==
    \E i \in (rec.route + 1)..Len(cfg.Routes) :
        /\ Eligible(cfg.Routes, i, rec.path, rec.method)
        /\ HasPublic(RulesFor(cfg.Routes[i], rec.method))

C30_FirstRouteDecides ==
    \A w \in DOMAIN rq :
        (Done(w) /\ rq[w].route # 0 /\ ProxyBuilt(rq[w])) =>
            LET rules == RulesFor(cfg.Routes[rq[w].route], rq[w].method)
            IN /\ \A i \in 1..(rq[w].route - 1) :
                     ~Eligible(cfg.Routes, i, rq[w].path, rq[w].method)
               /\ rq[w].rules = rules
               /\ rq[w].forwarded <=>
                     \/ HasPublic(rules)
                     \/ /\ rq[w].claims # NoClaims
                        /\ \E i \in 1..Len(rules) :
                              Satisfies(rules[i], RoleSet(rq[w].claims))
               /\ ~rq[w].forwarded =>
                     rq[w].status \in {StatusUnauthorized, StatusForbidden}

\* a request refused on the first route although a later route would allow it
C30_Witness ==
    \E w \in DOMAIN rq :
        /\ Done(w) /\ rq[w].route = 1 /\ ~rq[w].forwarded
        /\ rq[w].status = StatusForbidden
        /\ LaterRouteWouldAllow(rq[w])

=============================================================================
